---- MODULE Spec2Model ----
(***************************************************************************)
(* Cover-letter generator (cover_letter.py and its older twin main.py).    *)
(* One run of main() is a linear pipeline: check the credential, read the  *)
(* job description, one chat-completion request, placeholder substitution  *)
(* into a document, save the .docx, one soffice invocation.                *)
(* Python str values are modelled as sequences of one-character strings,   *)
(* so that strip / startswith / replace / split / strftime are computed    *)
(* character by character as the interpreter computes them.                *)
(***************************************************************************)
EXTENDS Integers, Sequences, FiniteSets, TLC

(* ------------------------------ bounds -------------------------------- *)
\* longest API response, in pieces of Pieces, of the pipeline specification
MaxRespPieces == 1
\* longest API response, in pieces of RichPieces, of the text specification
MaxPieces == 3
\* number of one-second clock ticks observed
MaxTicks == 2
\* number of times the program is started
MaxRuns == 2

(* --------------------------- string literals --------------------------- *)
unwanted_sentence == <<"H", "e", "r", "e", " ", "i", "s", " ", "a", " ", "p", "r", "o", "f", "e", "s", "s", "i", "o", "n", "a", "l", " ", "c", "o", "v", "e", "r", " ", "l", "e", "t", "t", "e", "r", " ", "b", "a", "s", "e", "d", " ", "o", "n", " ", "t", "h", "e", " ", "j", "o", "b", " ", "d", "e", "s", "c", "r", "i", "p", "t", "i", "o", "n", ":">>
name == <<"M", "i", "r", "a", "n", "g", " ", "B", "h", "a", "n", "d", "a", "r", "i">>
address == <<"X", "Y", "Z">>
Citypost == <<"M", "u", "m", "b", "a", "i", ",", " ", "4", "0", "0", "0", "0", "1">>
Email == <<"B", "h", "a", "n", "d", "a", "r", "i", "m", "i", "r", "a", "n", "g", "0", "3", "@", "g", "m", "a", "i", "l", ".", "c", "o", "m">>
number == <<"9", "3", "2", "1", "6", "9", "2", "0", "8", "8">>
linkedin == <<"w", "w", "w", ".", "l", "i", "n", "k", "e", "d", "i", "n", ".", "c", "o", "m", "/", "i", "n", "/", "m", "i", "r", "a", "n", "g", "b", "h", "a", "n", "d", "a", "r", "i">>
K_YourName == <<"[", "Y", "o", "u", "r", " ", "N", "a", "m", "e", "]">>
K_YourAddress == <<"[", "Y", "o", "u", "r", " ", "A", "d", "d", "r", "e", "s", "s", "]">>
K_YourCity == <<"[", "Y", "o", "u", "r", " ", "C", "i", "t", "y", ",", " ", "P", "o", "s", "t", "a", "l", " ", "C", "o", "d", "e", "]">>
K_EmailAddress == <<"[", "E", "m", "a", "i", "l", " ", "A", "d", "d", "r", "e", "s", "s", "]">>
K_PhoneNumber == <<"[", "P", "h", "o", "n", "e", " ", "N", "u", "m", "b", "e", "r", "]">>
K_YourLinkedIn == <<"[", "Y", "o", "u", "r", " ", "L", "i", "n", "k", "e", "d", "I", "n", " ", "P", "r", "o", "f", "i", "l", "e", "]">>
K_Date == <<"[", "D", "a", "t", "e", "]">>
T_YourEmailAddress == <<"[", "Y", "o", "u", "r", " ", "E", "m", "a", "i", "l", " ", "A", "d", "d", "r", "e", "s", "s", "]">>
T_CompanyName == <<"[", "C", "o", "m", "p", "a", "n", "y", " ", "N", "a", "m", "e", "]">>
HeaderContactTemplate == <<"[", "Y", "o", "u", "r", " ", "A", "d", "d", "r", "e", "s", "s", "]", ",", " ", "[", "Y", "o", "u", "r", " ", "C", "i", "t", "y", ",", " ", "P", "o", "s", "t", "a", "l", " ", "C", "o", "d", "e", "]", "\n", "[", "Y", "o", "u", "r", " ", "E", "m", "a", "i", "l", " ", "A", "d", "d", "r", "e", "s", "s", "]", " ", "|", " ", "[", "Y", "o", "u", "r", " ", "P", "h", "o", "n", "e", " ", "N", "u", "m", "b", "e", "r", "]", " ", "|", " ", "[", "Y", "o", "u", "r", " ", "L", "i", "n", "k", "e", "d", "I", "n", " ", "P", "r", "o", "f", "i", "l", "e", "]">>
DocxPrefix == <<"o", "u", "t", "p", "u", "t", "/", "c", "o", "v", "e", "r", "_", "l", "e", "t", "t", "e", "r", "_">>
DocxSuffix == <<".", "d", "o", "c", "x">>
PdfSuffix == <<".", "p", "d", "f">>
output_dir == <<"o", "u", "t", "p", "u", "t">>
PdfName == <<"c", "o", "v", "e", "r", "_", "l", "e", "t", "t", "e", "r", ".", "p", "d", "f">>
W_Dear == <<"D", "e", "a", "r">>
W_DateTail == <<"D", "a", "t", "e", "]">>
MonthName == <<<<"J", "a", "n", "u", "a", "r", "y">>, <<"F", "e", "b", "r", "u", "a", "r", "y">>, <<"M", "a", "r", "c", "h">>, <<"A", "p", "r", "i", "l">>, <<"M", "a", "y">>, <<"J", "u", "n", "e">>, <<"J", "u", "l", "y">>, <<"A", "u", "g", "u", "s", "t">>, <<"S", "e", "p", "t", "e", "m", "b", "e", "r">>, <<"O", "c", "t", "o", "b", "e", "r">>, <<"N", "o", "v", "e", "m", "b", "e", "r">>, <<"D", "e", "c", "e", "m", "b", "e", "r">>>>

(* --------------------------- str operations ---------------------------- *)
\* characters str.strip() removes
Whitespace == {" ", "\n", "\t", "\r"}

\* least element of a non-empty set of positions
First(S) == CHOOSE i \in S : \A j \in S : i <= j
Last(S) == CHOOSE i \in S : \A j \in S : i >= j

\* positions of s holding a character that strip() keeps
Kept(s) == { i \in 1..Len(s) : s[i] \notin Whitespace }

lstrip(s) == IF Kept(s) = {} THEN <<>> ELSE SubSeq(s, First(Kept(s)), Len(s))

rstrip(s) == IF Kept(s) = {} THEN <<>> ELSE SubSeq(s, 1, Last(Kept(s)))

strip(s) == rstrip(lstrip(s))

startswith(s, p) == Len(s) >= Len(p) /\ SubSeq(s, 1, Len(p)) = p

\* s[n:]
SliceFrom(s, n) == SubSeq(s, n + 1, Len(s))

\* positions at which old occurs in s
Find(s, old) == { i \in 1..(Len(s) - Len(old) + 1) : SubSeq(s, i, i + Len(old) - 1) = old }

\* a faulty replace: only the first occurrence is replaced
replace_first(s, old, new) ==
    IF Find(s, old) = {} THEN s
    ELSE LET i == First(Find(s, old))
         IN SubSeq(s, 1, i - 1) \o new \o SliceFrom(s, i + Len(old) - 1)

\* str.replace(old, new) for a non-empty old: leftmost first, non-overlapping
RECURSIVE replace(_, _, _)
replace(s, old, new) ==
    IF Find(s, old) = {} THEN s
    ELSE LET i == First(Find(s, old))
         IN SubSeq(s, 1, i - 1) \o new \o replace(SliceFrom(s, i + Len(old) - 1), old, new)

\* str.split(sep) for a one-character sep: always at least one field
RECURSIVE split(_, _)
split(s, sep) ==
    IF Find(s, <<sep>>) = {} THEN <<s>>
    ELSE LET i == First(Find(s, <<sep>>))
         IN <<SubSeq(s, 1, i - 1)>> \o split(SliceFrom(s, i), sep)

\* sep.join(parts)
RECURSIVE join(_, _)
join(parts, sep) ==
    IF parts = <<>> THEN <<>>
    ELSE IF Len(parts) = 1 THEN parts[1]
    ELSE parts[1] \o sep \o join(Tail(parts), sep)

\* os.path.join(a, b) for relative components (POSIX separator)
path_join(a, b) == a \o <<"/">> \o b

(* ------------------------------- clock --------------------------------- *)
\* local wall-clock time as time.localtime() breaks it down
IsLeap(y) == (y % 4 = 0 /\ y % 100 # 0) \/ y % 400 = 0

DaysInMonth(y, m) ==
    IF m = 2 THEN (IF IsLeap(y) THEN 29 ELSE 28)
    ELSE IF m \in {4, 6, 9, 11} THEN 30 ELSE 31

\* the clock one second later
TickClock(t) ==
    IF t.sec < 59 THEN [t EXCEPT !.sec = t.sec + 1]
    ELSE IF t.min < 59 THEN [t EXCEPT !.sec = 0, !.min = t.min + 1]
    ELSE IF t.hour < 23 THEN [t EXCEPT !.sec = 0, !.min = 0, !.hour = t.hour + 1]
    ELSE IF t.mday < DaysInMonth(t.year, t.mon)
         THEN [t EXCEPT !.sec = 0, !.min = 0, !.hour = 0, !.mday = t.mday + 1]
    ELSE IF t.mon < 12
         THEN [t EXCEPT !.sec = 0, !.min = 0, !.hour = 0, !.mday = 1, !.mon = t.mon + 1]
    ELSE [sec |-> 0, min |-> 0, hour |-> 0, mday |-> 1, mon |-> 1, year |-> t.year + 1]

\* instants at which a run may start
StartInstants ==
    { [year |-> 2024, mon |-> 12, mday |-> 31, hour |-> 23, min |-> 59, sec |-> 59],
      [year |-> 2025, mon |-> 6,  mday |-> 5,  hour |-> 9,  min |-> 5,  sec |-> 7] }

DigitChar == <<"0", "1", "2", "3", "4", "5", "6", "7", "8", "9">>
Digit(n) == DigitChar[n + 1]
Pad2(n) == <<Digit((n \div 10) % 10), Digit(n % 10)>>
Pad4(n) == <<Digit((n \div 1000) % 10), Digit((n \div 100) % 10)>> \o Pad2(n % 100)

\* strftime("%Y%m%d-%H%M%S")
strftime_timestamp(t) ==
    Pad4(t.year) \o Pad2(t.mon) \o Pad2(t.mday) \o <<"-">>
        \o Pad2(t.hour) \o Pad2(t.min) \o Pad2(t.sec)

\* strftime("%B %d, %Y")
strftime_date(t) ==
    MonthName[t.mon] \o <<" ">> \o Pad2(t.mday) \o <<",", " ">> \o Pad4(t.year)

(* ------------------------- program constants --------------------------- *)
Progs == {"cover_letter.py", "main.py"}

\* Python's None; distinct from every str value (a str is a sequence of
\* one-character strings)
None == <<"None">>

\* a faulty Falsy: only None counts as missing
Falsy_none_only(v) == v = None

\* truth value of `not v` for v a str or None
Falsy(v) == v = None \/ v = <<>>

\* values os.getenv("GROQ_API_KEY") may return after load_dotenv()
EnvKeys == {None, <<>>, <<"g", "s", "k">>}

\* sys.argv[1:]
Argvs == {<<>>, <<W_Dear, T_CompanyName>>}

\* what sys.stdin.read() may return
StdinContents == {<<>>, W_Dear \o <<"\n">> \o T_CompanyName}

\* stderr text of a failed soffice process
Stderrs == {<<>>, <<"E", "r", "r">>}

\* messages of print(); a printed line is <<fixed text, interpolated str>>
MsgNoKey == "Error: GROQ_API_KEY not found in .env file."
MsgPaste == "Paste the full job description below. Press Ctrl+D (or Ctrl+Z on Windows) when done:"
MsgGenerating == "\nGenerating cover letter..."
MsgDocx == "Successfully created DOCX: "
MsgPdf == "Successfully created PDF: "
MsgNoSoffice == "Error: 'soffice' command not found. Please ensure LibreOffice is installed and in your PATH."
MsgConvErr == "Error during PDF conversion: "

(* --------------------------- bounded inputs ---------------------------- *)
RECURSIVE Concat(_)
Concat(ps) == IF ps = <<>> THEN <<>> ELSE Head(ps) \o Concat(Tail(ps))

\* every text made of at most n pieces of P
Texts(P, n) == { Concat(ps) : ps \in UNION { [1..k -> P] : k \in 0..n } }

\* pieces of the API responses of the pipeline specification
Pieces == { unwanted_sentence, K_Date, T_CompanyName, <<" ">>, W_Dear }

\* pieces of the API responses of the text specification
RichPieces ==
    { unwanted_sentence, <<" ">>, <<"\n">>, W_Dear, <<"[">>, W_DateTail,
      K_Date, K_YourName, K_EmailAddress, T_YourEmailAddress, T_CompanyName }

Responses == Texts(Pieces, MaxRespPieces)
RichResponses == Texts(RichPieces, MaxPieces)

(* ---------------------------- pure functions --------------------------- *)
\* get_job_description_from_cli: the joined arguments, else standard input
get_job_description(args, input) ==
    IF Len(args) + 1 > 1 THEN join(args, <<" ">>) ELSE input

\* a faulty remove_unwanted: the remainder is not stripped
remove_unwanted_unstripped(generated_text) ==
    IF startswith(strip(generated_text), unwanted_sentence)
    THEN SliceFrom(strip(generated_text), Len(unwanted_sentence))
    ELSE generated_text

\* the post-processing of generate_cover_letter
remove_unwanted(generated_text) ==
    IF startswith(strip(generated_text), unwanted_sentence)
    THEN strip(SliceFrom(strip(generated_text), Len(unwanted_sentence)))
    ELSE generated_text

\* the replacements dict of create_docx, in insertion order; main.py has none
replacements(p, d) ==
    IF p = "cover_letter.py"
    THEN << <<K_YourName, name>>, <<K_YourAddress, address>>, <<K_YourCity, Citypost>>,
            <<K_EmailAddress, Email>>, <<K_PhoneNumber, number>>,
            <<K_YourLinkedIn, linkedin>>, <<K_Date, d>> >>
    ELSE <<>>

\* for placeholder, value in replacements.items(): text = text.replace(...)
RECURSIVE substitute(_, _)
substitute(text, reps) ==
    IF reps = <<>> THEN text
    ELSE substitute(replace(text, reps[1][1], reps[1][2]), Tail(reps))

\* a faulty create_docx_steps: the document is saved before the substitution
create_docx_steps_save_first(p) ==
    IF p = "cover_letter.py" THEN <<"save_docx", "substitute">> ELSE <<"save_docx">>

\* steps of create_docx up to and including document.save, in code order
create_docx_steps(p) ==
    IF p = "cover_letter.py" THEN <<"substitute", "save_docx">> ELSE <<"save_docx">>

\* the Document built by create_docx
build_document(p, text, d, now) ==
    IF p = "cover_letter.py"
    THEN [ name |-> name,
           contact |-> address \o <<",", " ">> \o Citypost \o <<" ", "|", " ">> \o Email
                        \o <<" ", "|", " ">> \o number \o <<" ", "|", " ">> \o linkedin,
           date_paragraph |-> <<strftime_date(now)>>,
           body |-> split(substitute(text, replacements(p, d)), "\n") ]
    ELSE [ name |-> K_YourName,
           contact |-> HeaderContactTemplate,
           date_paragraph |-> <<>>,
           body |-> split(text, "\n") ]

NoDocument == [name |-> <<>>, contact |-> <<>>, date_paragraph |-> <<>>, body |-> <<>>]

\* output_path of create_docx
docx_output_path(now) == DocxPrefix \o strftime_timestamp(now) \o DocxSuffix

\* the file `soffice --convert-to pdf --outdir dir path` writes:
\* dir/<base name of path without its extension>.pdf
basename(path) == LET parts == split(path, "/") IN parts[Len(parts)]
stem(file) ==
    LET parts == split(file, ".")
    IN IF Len(parts) = 1 THEN file ELSE join(SubSeq(parts, 1, Len(parts) - 1), <<".">>)
converter_output(dir, path) == path_join(dir, stem(basename(path)) \o PdfSuffix)

\* faulty variants of convert_to_pdf_return: the path is returned although soffice
\* was not found; although soffice failed; the converter's file is returned
convert_to_pdf_return_not_found(result, path) ==
    IF result \in {"ok", "FileNotFoundError"} THEN path_join(output_dir, PdfName) ELSE None

convert_to_pdf_return_failed(result, path) ==
    IF result \in {"ok", "CalledProcessError"} THEN path_join(output_dir, PdfName) ELSE None

convert_to_pdf_return_derived(result, path) ==
    IF result = "ok" THEN converter_output(output_dir, path) ELSE None

\* return value of convert_to_pdf for each outcome of subprocess.run
convert_to_pdf_return(result, path) ==
    IF result = "ok" THEN path_join(output_dir, PdfName) ELSE None

\* a faulty pc_after_generate: a failed request is swallowed
pc_after_generate_swallowed(p, outcome) ==
    IF p = "cover_letter.py" THEN "mapping" ELSE "create"

\* where main continues after generate_cover_letter
pc_after_generate(p, outcome) ==
    IF outcome # "ok" THEN "raised"
    ELSE IF p = "cover_letter.py" THEN "mapping" ELSE "create"

ApiOutcomes == {"ok", "APIConnectionError", "IndexError", "AttributeError"}
ConvertResults == {"ok", "FileNotFoundError", "CalledProcessError"}

(* -------------------------------- state -------------------------------- *)
VARIABLES
    prog,               \* which of the two scripts this run executes
    env_key,            \* GROQ_API_KEY as the environment / .env file gives it
    argv,               \* sys.argv[1:]
    pc,                 \* position of main: start, read, generate, mapping,
                        \* create, convert, done (returned), raised (exception)
    api_key,            \* main's api_key
    job_description,    \* main's job_description
    response,           \* completion.choices[0].message.content, None before
    cover_letter_text,  \* main's cover_letter_text
    date,               \* main's date (from placeholder_mapping)
    document,           \* the Document object of create_docx
    docx_path,          \* main's docx_path
    pdf_path,           \* main's pdf_path
    convert_result,     \* outcome of subprocess.run in this run, "none" before
    proc_stderr,        \* e.stderr of the CalledProcessError
    pdf_written,        \* the file soffice wrote in this run, None if none
    failure,            \* the failure met in this run, "none" if none
    out,                \* lines printed to standard output in this run
    trace,              \* pipeline steps executed in this run, in order
    run_files,          \* files written in this run
    files,              \* files in the output directory
    saved,              \* paths returned by create_docx, over all runs
    clock,              \* local wall-clock time, one-second resolution
    ticks,              \* clock ticks so far
    runs                \* program starts so far

vars == << prog, env_key, argv, pc, api_key, job_description, response,
           cover_letter_text, date, document, docx_path, pdf_path,
           convert_result, proc_stderr, pdf_written, failure, out, trace,
           run_files, files, saved, clock, ticks, runs >>

\* variables of one process, as a fresh interpreter has them
FreshRun ==
    /\ pc' = "start"
    /\ api_key' = None
    /\ job_description' = None
    /\ response' = None
    /\ cover_letter_text' = None
    /\ date' = None
    /\ document' = NoDocument
    /\ docx_path' = None
    /\ pdf_path' = None
    /\ convert_result' = "none"
    /\ proc_stderr' = None
    /\ pdf_written' = None
    /\ failure' = "none"
    /\ out' = <<>>
    /\ trace' = <<>>
    /\ run_files' = {}

Init ==
    /\ prog \in Progs
    /\ env_key \in EnvKeys
    /\ argv \in Argvs
    /\ clock \in StartInstants
    /\ pc = "start"
    /\ api_key = None
    /\ job_description = None
    /\ response = None
    /\ cover_letter_text = None
    /\ date = None
    /\ document = NoDocument
    /\ docx_path = None
    /\ pdf_path = None
    /\ convert_result = "none"
    /\ proc_stderr = None
    /\ pdf_written = None
    /\ failure = "none"
    /\ out = <<>>
    /\ trace = <<>>
    /\ run_files = {}
    /\ files = {}
    /\ saved = <<>>
    /\ ticks = 0
    /\ runs = 1

(* ------------------------------- actions ------------------------------- *)
\* main: load_dotenv, os.getenv, the credential test
CheckKey ==
    /\ pc = "start"
    /\ api_key' = env_key
    /\ IF Falsy(env_key)
       THEN /\ out' = Append(out, <<MsgNoKey, <<>>>>)
            /\ failure' = "missing_credential"
            /\ pc' = "done"
       ELSE /\ pc' = "read"
            /\ UNCHANGED <<out, failure>>
    /\ UNCHANGED << prog, env_key, argv, job_description, response,
                    cover_letter_text, date, document, docx_path, pdf_path,
                    convert_result, proc_stderr, pdf_written, trace,
                    run_files, files, saved, clock, ticks, runs >>

\* get_job_description_from_cli
GetJobDescription ==
    /\ pc = "read"
    /\ \E input \in StdinContents :
          job_description' = get_job_description(argv, input)
    /\ out' = IF Len(argv) + 1 > 1 THEN out ELSE Append(out, <<MsgPaste, <<>>>>)
    /\ trace' = Append(trace, "read_input")
    /\ pc' = "generate"
    /\ UNCHANGED << prog, env_key, argv, api_key, response, cover_letter_text,
                    date, document, docx_path, pdf_path, convert_result,
                    proc_stderr, pdf_written, failure, run_files, files,
                    saved, clock, ticks, runs >>

\* generate_cover_letter, then main's print; R is the set of texts the API
\* may answer with
GenerateCoverLetter(R) ==
    /\ pc = "generate"
    /\ trace' = Append(trace, "completion_request")
    /\ \E outcome \in ApiOutcomes, generated_text \in R :
          /\ pc' = pc_after_generate(prog, outcome)
          /\ IF outcome = "ok"
             THEN /\ response' = generated_text
                  /\ cover_letter_text' = remove_unwanted(generated_text)
                  /\ out' = Append(out, <<MsgGenerating, <<>>>>)
                  /\ UNCHANGED failure
             ELSE /\ failure' = outcome
                  /\ UNCHANGED <<response, cover_letter_text, out>>
    /\ UNCHANGED << prog, env_key, argv, api_key, job_description, date,
                    document, docx_path, pdf_path, convert_result,
                    proc_stderr, pdf_written, run_files, files, saved,
                    clock, ticks, runs >>

\* placeholder_mapping (cover_letter.py): the date is read from the clock
PlaceholderMapping ==
    /\ pc = "mapping"
    /\ date' = strftime_date(clock)
    /\ pc' = "create"
    /\ UNCHANGED << prog, env_key, argv, api_key, job_description, response,
                    cover_letter_text, document, docx_path, pdf_path,
                    convert_result, proc_stderr, pdf_written, failure, out,
                    trace, run_files, files, saved, clock, ticks, runs >>

\* create_docx, then main's print.  The date paragraph reads the clock as it
\* is on entry; the timestamp of the file name reads it again, possibly one
\* second later.  document.save raises when the output directory is missing.
CreateDocx ==
    /\ pc = "create"
    /\ \E later \in BOOLEAN, dir_ok \in BOOLEAN :
          LET now2 == IF later THEN TickClock(clock) ELSE clock
              output_path == docx_output_path(now2)
              steps == create_docx_steps(prog)
          IN /\ later => ticks < MaxTicks
             /\ clock' = now2
             /\ ticks' = IF later THEN ticks + 1 ELSE ticks
             /\ document' = build_document(prog, cover_letter_text, date, clock)
             /\ IF dir_ok
                THEN /\ files' = files \cup {output_path}
                     /\ run_files' = run_files \cup {output_path}
                     /\ saved' = Append(saved, output_path)
                     /\ docx_path' = output_path
                     /\ out' = Append(out, <<MsgDocx, output_path>>)
                     /\ trace' = trace \o steps
                     /\ pc' = "convert"
                     /\ UNCHANGED failure
                ELSE /\ failure' = "save_failed"
                     /\ trace' = trace \o SubSeq(steps, 1, Len(steps) - 1)
                     /\ pc' = "raised"
                     /\ UNCHANGED <<files, run_files, saved, docx_path, out>>
    /\ UNCHANGED << prog, env_key, argv, api_key, job_description, response,
                    cover_letter_text, date, pdf_path, convert_result,
                    proc_stderr, pdf_written, runs >>

\* convert_to_pdf, then main's test of pdf_path
ConvertToPdf ==
    /\ pc = "convert"
    /\ trace' = Append(trace, "invoke_converter")
    /\ \E result \in ConvertResults, err \in Stderrs :
          LET ret == convert_to_pdf_return(result, docx_path)
              msgs == IF result = "FileNotFoundError" THEN << <<MsgNoSoffice, <<>>>> >>
                      ELSE IF result = "CalledProcessError" THEN << <<MsgConvErr, err>> >>
                      ELSE <<>>
          IN /\ convert_result' = result
             /\ proc_stderr' = IF result = "CalledProcessError" THEN err ELSE None
             /\ pdf_written' =
                   IF result = "ok" THEN converter_output(output_dir, docx_path) ELSE None
             /\ files' = IF result = "ok" THEN files \cup {pdf_written'} ELSE files
             /\ run_files' = IF result = "ok" THEN run_files \cup {pdf_written'} ELSE run_files
             /\ failure' = IF result = "FileNotFoundError" THEN "soffice_missing"
                           ELSE IF result = "CalledProcessError" THEN "soffice_exit"
                           ELSE failure
             /\ pdf_path' = ret
             /\ out' = IF Falsy(ret) THEN out \o msgs
                       ELSE (out \o msgs) \o << <<MsgPdf, ret>> >>
    /\ pc' = "done"
    /\ UNCHANGED << prog, env_key, argv, api_key, job_description, response,
                    cover_letter_text, date, document, docx_path, saved,
                    clock, ticks, runs >>

\* the wall clock advances by one second
Tick ==
    /\ ticks < MaxTicks
    /\ clock' = TickClock(clock)
    /\ ticks' = ticks + 1
    /\ UNCHANGED << prog, env_key, argv, pc, api_key, job_description,
                    response, cover_letter_text, date, document, docx_path,
                    pdf_path, convert_result, proc_stderr, pdf_written,
                    failure, out, trace, run_files, files, saved, runs >>

\* the user starts one of the scripts again after the previous run ended
StartAgain ==
    /\ pc \in {"done", "raised"}
    /\ runs < MaxRuns
    /\ runs' = runs + 1
    /\ prog' \in Progs
    /\ env_key' \in EnvKeys
    /\ argv' \in Argvs
    /\ FreshRun
    /\ UNCHANGED <<files, saved, clock, ticks>>

Next ==
    \/ CheckKey
    \/ GetJobDescription
    \/ GenerateCoverLetter(Responses)
    \/ PlaceholderMapping
    \/ CreateDocx
    \/ ConvertToPdf
    \/ Tick
    \/ StartAgain

Spec == Init /\ [][Next]_vars

\* the text specification: one run with a credential, the API answering with
\* any text of RichResponses, up to the document
InitText ==
    /\ Init
    /\ env_key = <<"g", "s", "k">>
    /\ argv = <<W_Dear, T_CompanyName>>
    /\ clock.year = 2025

NextText ==
    \/ CheckKey
    \/ GetJobDescription
    \/ GenerateCoverLetter(RichResponses)
    \/ PlaceholderMapping
    \/ CreateDocx

SpecText == InitText /\ [][NextText]_vars

(* ============================== properties ============================= *)
Printed(m) == \E i \in 1..Len(out) : out[i][1] = m
LastPrinted == out[Len(out)]
Count(s, tok) == Cardinality(Find(s, tok))
Created == document # NoDocument
BodyText == join(document.body, <<"\n">>)
ApiFailures == {"APIConnectionError", "IndexError", "AttributeError"}

\* C1: when GROQ_API_KEY is unset or empty, main prints exactly the message
\* "Error: GROQ_API_KEY not found in .env file." and returns normally; it
\* reads no job description, issues no completion request, writes no file
\* and does not invoke the converter.
C1_MissingCredential ==
    (pc # "start" /\ env_key \in {None, <<>>}) =>
        /\ pc = "done"
        /\ out = << <<"Error: GROQ_API_KEY not found in .env file.", <<>>>> >>
        /\ trace = <<>>
        /\ run_files = {}
        /\ response = None
        /\ job_description = None
        /\ convert_result = "none"

C1_Witness ==
    /\ pc = "done"
    /\ env_key = <<>>
    /\ runs = 2
    /\ files # {}
    /\ out = << <<MsgNoKey, <<>>>> >>

\* the text a single left-to-right pass produces that replaces each
\* occurrence of a key of reps by the key's value
RECURSIVE OnePass(_, _)
OnePass(s, reps) ==
    LET hits == UNION { Find(s, reps[k][1]) : k \in 1..Len(reps) }
    IN IF hits = {} THEN s
       ELSE LET i == First(hits)
                k == CHOOSE k \in 1..Len(reps) : startswith(SliceFrom(s, i - 1), reps[k][1])
            IN SubSeq(s, 1, i - 1) \o reps[k][2]
                 \o OnePass(SliceFrom(s, i + Len(reps[k][1]) - 1), reps)

\* the bracketed tokens of s: "[", characters other than brackets, "]"
BracketTokens(s) ==
    LET brackets == { i \in 1..Len(s) : s[i] \in {"[", "]"} }
        opens == { i \in brackets :
                     /\ s[i] = "["
                     /\ \E j \in brackets : j > i
                     /\ s[First({ j \in brackets : j > i })] = "]" }
    IN { SubSeq(s, i, First({ j \in brackets : j > i })) : i \in opens }

KnownTokens == { replacements(prog, date)[k][1] : k \in 1..Len(replacements(prog, date)) }

\* C2: the text create_docx writes is the generated text with every
\* occurrence of every key of the replacement map replaced by its value (no
\* key is left in it), and every bracketed token of the generated text that
\* is not a key is still there, as many times as before.
C2_Substitution ==
    Created =>
        /\ BodyText = OnePass(cover_letter_text, replacements(prog, date))
        /\ \A k \in KnownTokens : Find(BodyText, k) = {}
        /\ \A u \in BracketTokens(cover_letter_text) \ KnownTokens :
              Count(BodyText, u) >= Count(cover_letter_text, u)

C2_Witness ==
    /\ Created
    /\ prog = "cover_letter.py"
    /\ Count(cover_letter_text, K_Date) = 2
    /\ Count(cover_letter_text, T_YourEmailAddress) = 1
    /\ Count(BodyText, date) = 2
    /\ Count(BodyText, T_YourEmailAddress) = 1

IsDigit(c) == c \in {"0", "1", "2", "3", "4", "5", "6", "7", "8", "9"}

\* output/cover_letter_<YYYYMMDD-HHMMSS>.docx
WellFormedDocxPath(p) ==
    /\ Len(p) = 40
    /\ SubSeq(p, 1, 20) = DocxPrefix
    /\ \A i \in 21..28 : IsDigit(p[i])
    /\ p[29] = "-"
    /\ \A i \in 30..35 : IsDigit(p[i])
    /\ SubSeq(p, 36, 40) = DocxSuffix

\* C3: every path create_docx returns has the form
\* output/cover_letter_<YYYYMMDD-HHMMSS>.docx, and two successive calls of
\* create_docx never return the same path.
C3_UniquePaths ==
    /\ \A i \in 1..Len(saved) : WellFormedDocxPath(saved[i])
    /\ \A i \in 1..(Len(saved) - 1) : saved[i] # saved[i + 1]

\* C4: when soffice is not found, convert_to_pdf prints its message and
\* returns None without raising, and main returns normally without printing
\* the PDF success message.
C4_MissingConverter ==
    convert_result = "FileNotFoundError" =>
        /\ pc = "done"
        /\ pdf_path = None
        /\ LastPrinted = <<MsgNoSoffice, <<>>>>
        /\ ~Printed(MsgPdf)
        /\ pdf_written = None

C4_Witness ==
    /\ convert_result = "FileNotFoundError"
    /\ pc = "done"
    /\ Printed(MsgDocx)
    /\ LastPrinted[1] = MsgNoSoffice

\* C5: when soffice exits with a non-zero status, convert_to_pdf prints the
\* converter's stderr and returns None without raising; the docx written
\* before is still in the output directory and the PDF success message is
\* not printed.
C5_ConverterFails ==
    convert_result = "CalledProcessError" =>
        /\ pc = "done"
        /\ pdf_path = None
        /\ LastPrinted = <<"Error during PDF conversion: ", proc_stderr>>
        /\ docx_path \in files
        /\ docx_path = saved[Len(saved)]
        /\ ~Printed(MsgPdf)

C5_Witness ==
    /\ convert_result = "CalledProcessError"
    /\ pc = "done"
    /\ proc_stderr = <<"E", "r", "r">>
    /\ docx_path \in files

FixedPdfPath ==
    <<"o", "u", "t", "p", "u", "t", "/", "c", "o", "v", "e", "r", "_",
      "l", "e", "t", "t", "e", "r", ".", "p", "d", "f">>

\* C6: when the conversion succeeds, convert_to_pdf returns
\* output/cover_letter.pdf whatever the docx path is, while the converter
\* wrote the docx path with .docx replaced by .pdf; the two differ, so the
\* path printed as the created PDF is not a file written in that run.
C6_PdfPathMismatch ==
    convert_result = "ok" =>
        /\ pdf_path = FixedPdfPath
        /\ pdf_written = SubSeq(docx_path, 1, 35) \o PdfSuffix
        /\ pdf_written # pdf_path
        /\ pdf_written \in files
        /\ pdf_path \notin run_files
        /\ LastPrinted = <<MsgPdf, FixedPdfPath>>

C6_Witness ==
    /\ convert_result = "ok"
    /\ pc = "done"
    /\ Len(saved) = 2
    /\ saved[1] # saved[2]
    /\ pdf_written \in files

Pipeline ==
    <<"read_input", "completion_request", "substitute", "save_docx", "invoke_converter">>

\* main.py has no substitution step
PipelineOf(p) ==
    IF p = "cover_letter.py" THEN Pipeline
    ELSE <<"read_input", "completion_request", "save_docx", "invoke_converter">>

IsPrefix(a, b) == Len(a) <= Len(b) /\ SubSeq(b, 1, Len(a)) = a

\* C7: in a run with a credential the steps read input, completion request,
\* substitution, save docx, converter invocation happen in this order and
\* each at most once; the converter is not invoked before the docx is saved,
\* the docx is not saved before the completion response is there, and a run
\* that returns normally has executed each step exactly once.
C7_PipelineOrder ==
    /\ \A i, j \in 1..Len(trace) : i # j => trace[i] # trace[j]
    /\ IsPrefix(trace, PipelineOf(prog))
    /\ \A i \in 1..Len(trace) :
          /\ trace[i] = "invoke_converter" =>
                \E j \in 1..(i - 1) : trace[j] = "save_docx"
          /\ trace[i] = "save_docx" =>
                /\ response # None
                /\ \E j \in 1..(i - 1) : trace[j] = "completion_request"
    /\ (pc = "done" /\ env_key \notin {None, <<>>}) => trace = PipelineOf(prog)

C7_Witness ==
    /\ pc = "done"
    /\ prog = "cover_letter.py"
    /\ trace = Pipeline
    /\ convert_result = "ok"

\* C8: a failed completion request propagates out of main; in that run no
\* docx is written, the converter is not invoked and no success message is
\* printed.  A run that returns normally has met no failure other than the
\* missing credential, the missing converter and the converter's non-zero
\* exit.
C8_ApiFailurePropagates ==
    /\ failure \in ApiFailures =>
          /\ pc = "raised"
          /\ run_files = {}
          /\ ~Created
          /\ \A i \in 1..Len(trace) : trace[i] \notin {"substitute", "save_docx", "invoke_converter"}
          /\ ~Printed(MsgDocx)
          /\ ~Printed(MsgPdf)
    /\ pc = "done" =>
          failure \in {"none", "missing_credential", "soffice_missing", "soffice_exit"}

C8_Witness ==
    /\ failure = "IndexError"
    /\ pc = "raised"
    /\ trace = <<"read_input", "completion_request">>

\* number of leading whitespace characters of s
LeadWs(s) ==
    CHOOSE i \in 0..Len(s) :
        /\ \A k \in 1..i : s[k] \in Whitespace
        /\ i < Len(s) => s[i + 1] \notin Whitespace

\* r with its first n characters removed
Drop(r, n) == [k \in 1..(Len(r) - n) |-> r[k + n]]

\* r is whitespace, the unwanted sentence, then anything
HasIntro(r) ==
    /\ LeadWs(r) + Len(unwanted_sentence) <= Len(r)
    /\ \A k \in 1..Len(unwanted_sentence) : r[LeadWs(r) + k] = unwanted_sentence[k]

\* r is whitespace, the unwanted sentence, whitespace, c, whitespace, and c
\* neither begins nor ends with whitespace
IsRemainder(r, c) ==
    LET rest == Drop(r, LeadWs(r) + Len(unwanted_sentence))
        a == LeadWs(rest)
    IN /\ HasIntro(r)
       /\ a + Len(c) <= Len(rest)
       /\ \A k \in 1..Len(c) : rest[a + k] = c[k]
       /\ \A k \in (a + Len(c) + 1)..Len(rest) : rest[k] \in Whitespace
       /\ c # <<>> => c[1] \notin Whitespace /\ c[Len(c)] \notin Whitespace

\* C9 as stated: the returned text never begins with the unwanted sentence;
\* it is the stripped remainder when the stripped response begins with the
\* sentence and the response itself otherwise.
C9_NeverBeginsWithIntro ==
    response # None =>
        /\ ~startswith(cover_letter_text, unwanted_sentence)
        /\ HasIntro(response) => IsRemainder(response, cover_letter_text)
        /\ ~HasIntro(response) => cover_letter_text = response

\* C9 as amended: the returned text is the stripped remainder when the
\* stripped response begins with the unwanted sentence and the response
\* itself otherwise; it begins with the sentence only when the response
\* repeats the sentence (what follows the first occurrence begins, after
\* whitespace, with the sentence again).
C9_RemovesOneIntro ==
    response # None =>
        /\ HasIntro(response) => IsRemainder(response, cover_letter_text)
        /\ ~HasIntro(response) => cover_letter_text = response
        /\ startswith(cover_letter_text, unwanted_sentence) =>
              /\ HasIntro(response)
              /\ HasIntro(Drop(response, LeadWs(response) + Len(unwanted_sentence)))

C9_Witness ==
    /\ response # None
    /\ HasIntro(response)
    /\ cover_letter_text = W_Dear
    /\ Len(response) > Len(unwanted_sentence) + Len(W_Dear)

\* C10: in a document of cover_letter.py the date paragraph equals the value
\* passed for the [Date] placeholder.
C10_OneDate ==
    (prog = "cover_letter.py" /\ Created) => document.date_paragraph = <<date>>
====
